---- MODULE Spec2Model ----
(***************************************************************************)
(* A model of mcp-kr-realestate: the summary cache of the analyze_* tools, *)
(* the paginated collection loops of the fetch layer, and the cleaning and *)
(* lease split of the asset-type analysis functions.                       *)
(*                                                                         *)
(* Korean field names of the source are written in romanised form:         *)
(*   georaegeumaek = '거래금액' (price), jeonyongmyeonjeok = '전용면적'      *)
(*   (exclusive-use area), wolseaek = '월세액' (monthly rent),               *)
(*   bojeunggeumaek = '보증금액' (deposit).                                  *)
(***************************************************************************)
EXTENDS Integers, Sequences, FiniteSets, TLC

VARIABLES
    \* ---- summary cache (tools/analysis_tools.py, analyze_* handlers) ----
    now,        \* the file system's timestamp clock
    category,   \* asset category of the source file under analysis
    source,     \* the raw data file p: exists, content, mtime
    artifact,   \* cache path -> summary file: exists, content, mtime
    ret,        \* what the most recent analyze_* call observed and returned
    \* ---- paginated collection (apis/*.py, tools/transaction_tools.py) ----
    variant,     \* which collecting function is running
    pc,          \* "idle", "loop" (about to request page_no), "done", "failed"
    page_no,     \* the loop's page counter
    total_count, \* the loop's total_count: known (not None) and its value
    all_items,   \* the loop's accumulated items, each <<page, index>>
    requested,   \* history: the page numbers requested, in order
    served,      \* history: the number of items each answered page carried
    reported,    \* history: the totalCount text of the first answered page
    records,     \* the record list built from all_items after the loop
    datafile,    \* the data file of the (region, month): exists, content
    pre_file,    \* history: the data file as the call found it
    file_writes, \* history: how often the call has written the data file
    outcome,     \* how the call ended: kind, cause, records
    \* ---- analysis functions (tools/analysis_tools.py, analyze_*_data) ----
    df,          \* the record set handed to the analysis function
    result,      \* what the analysis function returned for df
    \* ---- resolvers and conversions applied to df ----
    resolution,  \* a resolver and its numeric step applied to a concept
    conversion,  \* a numeric conversion applied to one cell
    split,       \* the fetch layer's jeonse / wolse split of df
    \* ---- statistics over the cleaned rows (analyze_*_data after cleaning) ----
    deals,       \* the rows that survived cleaning, in order
    stats,       \* the statistics sections computed from them
    \* ---- the unit-tagged formatter (as_value_unit) ----
    value,       \* the value handed to the formatter
    unit_str,    \* the unit label handed to the formatter
    formatted,   \* what the formatter returned
    \* ---- concurrent analyze_* calls on one source ----
    calls,       \* caller -> its position in the handler body and its result
    \* ---- the environment ----
    credential   \* PUBLIC_DATA_API_KEY_ENCODED is configured

cacheVars == <<now, category, source, artifact, ret>>
pagingVars == <<variant, pc, page_no, total_count, all_items, requested, served,
                reported, records, datafile, pre_file, file_writes, outcome>>
fetchVars == <<resolution, conversion, split>>
statsVars == <<deals, stats>>
formatVars == <<value, unit_str, formatted>>
analysisVars == <<df, result, fetchVars, statsVars, formatVars>>
raceVars == <<calls>>
envVars == <<credential>>
vars == <<cacheVars, pagingVars, analysisVars, raceVars, envVars>>

----------------------------------------------------------------------------
(* Bounds of the model *)

MaxTime == 3

MaxTotal == 3

MaxPageItems == 3

MaxRecords == 2

----------------------------------------------------------------------------
(* Files *)

NoFile == [exists |-> FALSE, content |-> <<>>, mtime |-> 0]

NoSource == [exists |-> FALSE, content |-> "none", mtime |-> 0]

File(c, t) == [exists |-> TRUE, content |-> c, mtime |-> t]

\* Contents a raw data file can have, by what the handler does with them:
\* "v1", "v2": two different readable record sets; "malformed": pd.read_json
\* raises; "raises": the analysis function raises on it.
GoodContents == {"v1", "v2"}
Contents == GoodContents \cup {"malformed", "raises"}

\* What open(cache_path, 'w') followed by a failed json.dump leaves behind.
Partial == "partial"

----------------------------------------------------------------------------
(* The analyze_* tools: name -> property_type, trade_type passed to          *)
(* get_summary_cache_path ("none" is Python's None / argument omitted).      *)

ToolTable ==
    [ analyze_commercial_property_trade   |-> [property_type |-> "commercial",      trade_type |-> "none"],
      analyze_apartment_trade             |-> [property_type |-> "apartment",       trade_type |-> "trade"],
      analyze_apartment_rent              |-> [property_type |-> "apartment",       trade_type |-> "rent"],
      analyze_officetel_trade             |-> [property_type |-> "officetel",       trade_type |-> "trade"],
      analyze_officetel_rent              |-> [property_type |-> "officetel",       trade_type |-> "rent"],
      analyze_single_detached_house_trade |-> [property_type |-> "single_detached", trade_type |-> "trade"],
      analyze_single_detached_house_rent  |-> [property_type |-> "single_detached", trade_type |-> "rent"],
      analyze_row_house_trade             |-> [property_type |-> "row_house",       trade_type |-> "trade"],
      analyze_row_house_rent              |-> [property_type |-> "row_house",       trade_type |-> "rent"],
      analyze_industrial_property_trade   |-> [property_type |-> "industrial",      trade_type |-> "none"],
      analyze_land_trade                  |-> [property_type |-> "land",            trade_type |-> "none"] ]

Tools == DOMAIN ToolTable

Categories == {ToolTable[t].property_type : t \in Tools}

\* The file names the cache directory can hold for one source stem.
CachePaths == {"stem_summary.json", "stem_trade_summary.json", "stem_rent_summary.json"}

\* A path that leaves the trade type out for every category.
get_summary_cache_path_without_trade_type(property_type, trade_type) == "stem_summary.json"

get_summary_cache_path(property_type, trade_type) ==
    IF property_type \in {"commercial", "land", "industrial"}
    THEN "stem_summary.json"
    ELSE IF trade_type # "none"
         THEN "stem_" \o trade_type \o "_summary.json"
         ELSE "stem_summary.json"

cache_path(t) == get_summary_cache_path(ToolTable[t].property_type, ToolTable[t].trade_type)

\* A freshness test that also accepts an artifact as old as the source.
FreshStale(a, s) == a.exists /\ a.mtime >= s.mtime

\* The freshness test of the handlers: cache_path.exists() and
\* cache_path.stat().st_mtime > p.stat().st_mtime
Fresh(a, s) == a.exists /\ a.mtime > s.mtime

\* The summary the tool's analysis function computes from a readable source:
\* a pure function of the tool and the content.
Summary(t, c) == <<t, c>>

----------------------------------------------------------------------------
(* Records, data frames and numeric coercion.                               *)

\* Field names: the candidate names of the four concepts (wolsegeumaek is
\* '월세금액', looked for by apis/officetel_rent.py).
AllKeys == {"georaegeumaek", "dealAmount",
            "jeonyongmyeonjeok", "area", "excluUseAr", "buildingAr", "areaNum",
            "bojeunggeumaek", "bojeunggeum", "deposit", "depositNum",
            "wolseaek", "wolsegeumaek", "wolse", "monthlyRent", "rentFeeNum"}

\* A cell: a text (a sequence of characters), Python's None, the NaN pandas
\* puts where a row lacks a column, or no cell at all (the record has no such
\* key).
Str(t) == [kind |-> "str", text |-> t]

NoneCell == [kind |-> "none", text |-> <<>>]

NaNCell == [kind |-> "nan", text |-> <<>>]

Absent == [kind |-> "absent", text |-> <<>>]

\* A record: its keys with their cells; every other key is absent.
Rec(pairs) ==
    [k \in AllKeys |-> IF \E p \in pairs : p[1] = k
                       THEN (CHOOSE p \in pairs : p[1] = k)[2]
                       ELSE Absent]

RecordKeys(r) == {k \in AllKeys : r[k].kind # "absent"}

\* df.columns of pd.DataFrame(records)
Columns(d) == UNION {RecordKeys(d[i]) : i \in 1..Len(d)}

Cell(d, i, k) == IF d[i][k].kind = "absent" THEN NaNCell ELSE d[i][k]

\* A frame is empty only when it has no row.
empty_rows_only(d) == Len(d) = 0

\* df.empty: any of the axes is of length 0
empty(d) == Len(d) = 0 \/ Columns(d) = {}

\* get_col_from_df: the first name that is a column of the frame, as a
\* column; a column of None when no name is.
get_col_from_df(d, col_names) ==
    LET present == {j \in 1..Len(col_names) : col_names[j] \in Columns(d)}
    IN  IF present = {}
        THEN [i \in 1..Len(d) |-> NoneCell]
        ELSE LET first == CHOOSE j \in present : \A m \in present : j <= m
             IN  [i \in 1..Len(d) |-> Cell(d, i, col_names[first])]

\* series.astype(str)
astype_str(c) ==
    CASE c.kind = "str" -> c.text
      [] c.kind = "none" -> <<"N", "o", "n", "e">>
      [] OTHER -> <<"n", "a", "n">>

RECURSIVE str_replace_comma(_)
\* .str.replace(',', '')
str_replace_comma(t) ==
    IF t = <<>> THEN <<>>
    ELSE IF Head(t) = "," THEN str_replace_comma(Tail(t))
    ELSE <<Head(t)>> \o str_replace_comma(Tail(t))

DigitChars == {"0", "1", "2", "3", "4", "5", "6", "7", "8", "9"}

DigitValue(c) ==
    CASE c = "0" -> 0 [] c = "1" -> 1 [] c = "2" -> 2 [] c = "3" -> 3 [] c = "4" -> 4
      [] c = "5" -> 5 [] c = "6" -> 6 [] c = "7" -> 7 [] c = "8" -> 8 [] c = "9" -> 9

IsDigits(t) == t # <<>> /\ \A i \in 1..Len(t) : t[i] \in DigitChars

RECURSIVE DigitsValue(_)
DigitsValue(t) ==
    IF t = <<>> THEN 0
    ELSE DigitsValue(SubSeq(t, 1, Len(t) - 1)) * 10 + DigitValue(t[Len(t)])

Missing == [ok |-> FALSE, val |-> 0]

Number(n) == [ok |-> TRUE, val |-> n]

\* pd.to_numeric(text, errors='coerce') of one text: a number, or NaN
coerce(t) ==
    IF IsDigits(t) THEN Number(DigitsValue(t))
    ELSE IF Len(t) >= 2 /\ t[1] = "-" /\ IsDigits(Tail(t))
         THEN Number(0 - DigitsValue(Tail(t)))
         ELSE Missing

\* to_numeric of one cell
to_number(c) == coerce(str_replace_comma(astype_str(c)))

\* to_numeric(series)
to_numeric(series) == [i \in 1..Len(series) |-> to_number(series[i])]

\* A cleaning step that keeps an area of 0.
keeps_area_nonnegative(a) == a >= 0

\* df = df[df[area] > 0]
keeps_area(a) == a > 0

----------------------------------------------------------------------------
(* The asset-type analysis functions: cleaning and lease split.             *)

Concepts == {"price", "area", "deposit", "rent"}

\* The candidate names each function hands to get_col_from_df, in order
\* (georaegeumaek '거래금액', jeonyongmyeonjeok '전용면적', bojeunggeumaek
\* '보증금액', bojeunggeum '보증금', wolseaek '월세액', wolse '월세').
AnalysisTable ==
    [ analyze_commercial_property_data |->
        [lease |-> FALSE,
         price |-> <<"georaegeumaek", "dealAmount">>,
         area |-> <<"jeonyongmyeonjeok", "area", "excluUseAr", "buildingAr">>,
         deposit |-> <<>>, rent |-> <<>>],
      analyze_apartment_trade_data |->
        [lease |-> FALSE,
         price |-> <<"georaegeumaek", "dealAmount">>,
         area |-> <<"jeonyongmyeonjeok", "area", "excluUseAr">>,
         deposit |-> <<>>, rent |-> <<>>],
      analyze_apartment_rent_data |->
        [lease |-> TRUE,
         price |-> <<>>,
         area |-> <<"jeonyongmyeonjeok", "area", "excluUseAr", "areaNum">>,
         deposit |-> <<"bojeunggeumaek", "bojeunggeum", "deposit", "depositNum">>,
         rent |-> <<"wolseaek", "wolse", "monthlyRent", "rentFeeNum">>] ]

AnalysisFns == DOMAIN AnalysisTable

\* The columns of dropna(subset=[...])
Required(fn) ==
    IF AnalysisTable[fn].lease THEN {"deposit", "rent", "area"} ELSE {"price", "area"}

NoColumns == [c \in Concepts |-> <<>>]

NoResult ==
    [fn |-> "none", error |-> "", statistics |-> FALSE, resolved |-> NoColumns,
     cleaned |-> <<>>, jeonse |-> <<>>, wolse |-> <<>>,
     jeonse_count |-> 0, wolse_count |-> 0]

ErrorResult(fn, msg, res) == [NoResult EXCEPT !.fn = fn, !.error = msg, !.resolved = res]

Rows(d) == [i \in 1..Len(d) |-> i]

\* analyze_<asset>_<trade|rent>_data(df), up to the lease split: the rows
\* that reach the aggregation (cleaned, by row number), and for a lease
\* function the jeonse and wolse frames and their counts.
analyze_data(fn, d) ==
    IF empty(d)
    THEN ErrorResult(fn, "No data to analyze.", NoColumns)
    ELSE
      LET res == [c \in Concepts |->
                    IF c \in Required(fn) THEN get_col_from_df(d, AnalysisTable[fn][c])
                    ELSE <<>>]
          num == [c \in Concepts |-> to_numeric(res[c])]
          notna(i) == \A c \in Required(fn) : num[c][i].ok
          kept(i) == keeps_area(num["area"][i].val)
          cleaned == SelectSeq(SelectSeq(Rows(d), notna), kept)
          is_jeonse(i) == num["rent"][i].val = 0
          is_wolse(i) == num["rent"][i].val > 0
          df_jeonse == IF AnalysisTable[fn].lease THEN SelectSeq(cleaned, is_jeonse) ELSE <<>>
          df_wolse == IF AnalysisTable[fn].lease THEN SelectSeq(cleaned, is_wolse) ELSE <<>>
      IN  IF cleaned = <<>>
          THEN ErrorResult(fn, "No valid transaction data after cleaning.", res)
          ELSE [fn |-> fn, error |-> "", statistics |-> TRUE, resolved |-> res,
                cleaned |-> cleaned, jeonse |-> df_jeonse, wolse |-> df_wolse,
                jeonse_count |-> Len(df_jeonse), wolse_count |-> Len(df_wolse)]

----------------------------------------------------------------------------
(* Record sets the analysis is run on.                                      *)

T500000 == Str(<<"5", "0", "0", ",", "0", "0", "0">>)

T84 == Str(<<"8", "4">>)

T59 == Str(<<"5", "9">>)

T50 == Str(<<"5", "0">>)

T0 == Str(<<"0">>)

TNegative == Str(<<"-", "1", "0">>)

TEmpty == Str(<<>>)

TJunk == Str(<<"x">>)

\* A valid record under the modern names, and variations of it.
Modern(price, area, rent) ==
    Rec({<<"dealAmount", price>>, <<"deposit", price>>,
         <<"excluUseAr", area>>, <<"monthlyRent", rent>>})

\* A valid record under the legacy names.
Legacy(price, area, rent) ==
    Rec({<<"georaegeumaek", price>>, <<"bojeunggeumaek", price>>,
         <<"jeonyongmyeonjeok", area>>, <<"wolseaek", rent>>})

SampleRecords ==
    { Modern(T500000, T59, T0),
      Modern(T500000, T59, T50),
      Modern(T500000, T59, TNegative),
      Modern(T500000, T59, TEmpty),
      Modern(T500000, T0, T0),
      Modern(T500000, TNegative, T0),
      Modern(T500000, TEmpty, T50),
      Modern(TJunk, T59, T0),
      Modern(NoneCell, T59, T50),
      Legacy(T500000, T84, T50),
      Legacy(T500000, T0, T0),
      \* no price and no deposit
      Rec({<<"excluUseAr", T59>>, <<"monthlyRent", T0>>}),
      \* the first-listed name of every concept next to a later one
      Rec({<<"georaegeumaek", T500000>>, <<"dealAmount", T50>>,
           <<"bojeunggeumaek", T500000>>, <<"deposit", T50>>,
           <<"jeonyongmyeonjeok", T84>>, <<"excluUseAr", T59>>,
           <<"wolseaek", T50>>, <<"monthlyRent", T0>>}),
      \* two later-listed names of area and of rent, without the first-listed
      Rec({<<"dealAmount", T500000>>, <<"deposit", T500000>>,
           <<"area", T84>>, <<"excluUseAr", T59>>,
           <<"wolse", T50>>, <<"monthlyRent", T0>>}),
      \* a record without any field
      Rec({}) }

RecordSets == UNION {[1..n -> SampleRecords] : n \in 0..MaxRecords}

----------------------------------------------------------------------------
(* The fetch layer's own resolvers and numeric conversions (apis/*.py).     *)

\* The functions that build a frame from the collected items and convert
\* columns of it, next to the analysis functions' pair get_col_from_df /
\* to_numeric.
Resolvers == {"get_col_from_df", "nrg_trade.get_col", "molit_api.get_col",
              "officetel_rent.get_col_name"}

\* The candidate names each of them is called with, per concept.
Candidates(impl, c) ==
    CASE impl = "get_col_from_df" -> AnalysisTable["analyze_apartment_rent_data"][c]
      [] impl \in {"nrg_trade.get_col", "molit_api.get_col"} ->
            (CASE c = "price" -> <<"georaegeumaek", "dealAmount">>
               [] c = "area" -> <<"jeonyongmyeonjeok", "area", "excluUseAr">>
               [] OTHER -> <<>>)
      [] OTHER ->
            (CASE c = "deposit" -> <<"bojeunggeumaek", "bojeunggeum">>
               [] c = "rent" -> <<"wolsegeumaek", "wolse">>
               [] c = "area" -> <<"jeonyongmyeonjeok", "area", "excluUseAr">>
               [] OTHER -> <<>>)

ResolvedConcepts(impl) == {c \in Concepts : Candidates(impl, c) # <<>>}

RECURSIVE lstrip(_)
lstrip(t) == IF t # <<>> /\ Head(t) = " " THEN lstrip(Tail(t)) ELSE t

RECURSIVE rstrip(_)
rstrip(t) ==
    IF t # <<>> /\ t[Len(t)] = " " THEN rstrip(SubSeq(t, 1, Len(t) - 1)) ELSE t

\* str.strip()
strip(t) == rstrip(lstrip(t))

\* float(text): a number, NaN for 'nan', ValueError for any other text
float_of(t) ==
    LET u == strip(t)
    IN  IF coerce(u).ok THEN [raises |-> "none", num |-> coerce(u)]
        ELSE IF u = <<"n", "a", "n">> THEN [raises |-> "none", num |-> Missing]
        ELSE [raises |-> "ValueError", num |-> Missing]

Converted(n) == [raised |-> FALSE, num |-> n]

Uncaught == [raised |-> TRUE, num |-> Missing]

\* A conversion that turns the empty text into 0.
to_num_empty_is_zero(s) ==
    LET t == str_replace_comma(astype_str(s))
    IN  IF t = <<>> THEN Converted(Number(0))
        ELSE IF float_of(t).raises = "none" THEN Converted(float_of(t).num)
        ELSE Converted(Missing)

\* nrg_trade.py to_num: float(str(s).replace(',', '')),
\* except (ValueError, TypeError): np.nan
nrg_trade_to_num(s) ==
    LET f == float_of(str_replace_comma(astype_str(s)))
    IN  IF f.raises = "none" THEN Converted(f.num)
        ELSE IF f.raises \in {"ValueError", "TypeError"} THEN Converted(Missing)
        ELSE Uncaught

\* molit_api.py to_num: the same under a bare except
molit_api_to_num(s) ==
    LET f == float_of(str_replace_comma(astype_str(s)))
    IN  IF f.raises = "none" THEN Converted(f.num) ELSE Converted(Missing)

\* officetel_rent.py to_num: float(str(s).replace(',', '').strip() or 0),
\* except (ValueError, TypeError): 0.0
officetel_rent_to_num(s) ==
    LET t == strip(str_replace_comma(astype_str(s)))
        f == float_of(t)
    IN  IF t = <<>> THEN Converted(Number(0))
        ELSE IF f.raises = "none" THEN Converted(f.num)
        ELSE IF f.raises \in {"ValueError", "TypeError"} THEN Converted(Number(0))
        ELSE Uncaught

\* analysis_tools.py to_numeric of one cell (errors='coerce')
analysis_to_num(s) == Converted(to_number(s))

to_num(impl, s) ==
    CASE impl = "get_col_from_df" -> analysis_to_num(s)
      [] impl = "nrg_trade.get_col" -> nrg_trade_to_num(s)
      [] impl = "molit_api.get_col" -> molit_api_to_num(s)
      [] OTHER -> officetel_rent_to_num(s)

FirstPresent(d, names) ==
    LET present == {j \in 1..Len(names) : names[j] \in Columns(d)}
    IN  IF present = {} THEN 0 ELSE CHOOSE j \in present : \A m \in present : j <= m

\* The resolver and the numeric step applied to what it returned:
\*   analysis_tools.py: to_numeric(get_col_from_df(df, *names))
\*   nrg_trade.py: get_col returns df[n], else a Series of NaN; .apply(to_num)
\*   molit_api.py: get_col returns the name n, else names[0], a str, on
\*                 which .map raises AttributeError
\*   officetel_rent.py: get_col_name returns the name, else None;
\*                 df[col_name].map(to_num) if col_name else 0.0
resolve_numeric(impl, d, names) ==
    LET first == FirstPresent(d, names)
        col == [i \in 1..Len(d) |->
                    IF first = 0 THEN NaNCell ELSE Cell(d, i, names[first])]
    IN  CASE impl = "get_col_from_df" ->
                [raised |-> FALSE, column |-> to_numeric(get_col_from_df(d, names))]
          [] impl = "nrg_trade.get_col" ->
                [raised |-> \E i \in 1..Len(d) : nrg_trade_to_num(col[i]).raised,
                 column |-> [i \in 1..Len(d) |-> nrg_trade_to_num(col[i]).num]]
          [] impl = "molit_api.get_col" ->
                [raised |-> TRUE, column |-> <<>>]
          [] OTHER ->
                IF first = 0
                THEN [raised |-> FALSE, column |-> [i \in 1..Len(d) |-> Number(0)]]
                ELSE [raised |-> \E i \in 1..Len(d) : officetel_rent_to_num(col[i]).raised,
                      column |-> [i \in 1..Len(d) |-> officetel_rent_to_num(col[i]).num]]

NoResolution == [impl |-> "none", concept |-> "none", raised |-> FALSE, column |-> <<>>]

NoConversion == [impl |-> "none", input |-> Absent, raised |-> FALSE, num |-> Missing]

NoSplit == [done |-> FALSE, rentFeeNum |-> <<>>, jeonse |-> <<>>, wolse |-> <<>>]

\* get_officetel_rent_data after the loop, for the items of one district:
\* jeonse_df = group[group['rentFeeNum'] == 0], wolse_df = ... > 0
officetel_rent_split(d) ==
    LET rent == resolve_numeric("officetel_rent.get_col_name", d,
                                Candidates("officetel_rent.get_col_name", "rent")).column
        is_jeonse(i) == rent[i].ok /\ rent[i].val = 0
        is_wolse(i) == rent[i].ok /\ rent[i].val > 0
    IN  [done |-> TRUE, rentFeeNum |-> rent,
         jeonse |-> SelectSeq(Rows(d), is_jeonse), wolse |-> SelectSeq(Rows(d), is_wolse)]

T1234 == Str(<<"1", ",", "2", "3", "4">>)

TBlank == Str(<<" ">>)

\* An item under the names the fetch layer looks for.
Item(price, area, rent) ==
    Rec({<<"georaegeumaek", price>>, <<"bojeunggeumaek", price>>,
         <<"jeonyongmyeonjeok", area>>, <<"wolsegeumaek", rent>>})

\* Items as {child.tag: child.text}: texts, or None for an empty element.
SampleItems ==
    { Item(T500000, T59, T0),
      Item(T1234, T84, T50),
      Item(T500000, T59, TEmpty),
      Item(T500000, T59, NoneCell),
      Item(TJunk, T59, TJunk),
      Item(TBlank, T0, TBlank),
      Item(NoneCell, TEmpty, TNegative),
      \* no rent element
      Rec({<<"bojeunggeumaek", T500000>>, <<"jeonyongmyeonjeok", T59>>}),
      \* the names of the current API
      Modern(T500000, T59, T50),
      \* no price or deposit under any name
      Rec({<<"excluUseAr", T59>>}),
      \* an item without child elements
      Rec({}) }

\* The frames the fetch layer builds: at least one item was collected.
ItemSets == UNION {[1..n -> SampleItems] : n \in 1..MaxRecords}

----------------------------------------------------------------------------
(* Statistics over the cleaned rows: representative deals, age and scale    *)
(* buckets, groups (analyze_commercial_property_data after the cleaning).   *)

MaxDeals == 3

\* A cleaned row: its 거래금액_num, its 전용면적_num (> 0), its 건물연령 (NaN
\* when the build year is missing) and its cell of the location column.
Row(price, area, age, dong) == [price |-> price, area |-> area, age |-> age, dong |-> dong]

NoDong == [ok |-> FALSE, name |-> ""]

Dong(name) == [ok |-> TRUE, name |-> name]

SampleRows ==
    { Row(100, 99, Number(5), Dong("A")),
      Row(200, 100, Number(6), Dong("A")),
      Row(200, 300, Number(11), Dong("B")),
      Row(300, 1000, Number(21), NoDong),
      Row(150, 299, Number(10), Dong("B")),
      Row(200, 999, Missing, Dong("A")),
      Row(100, 50, Number(0 - 1), NoDong),
      Row(300, 1200, Number(20), Dong("C")),
      Row(250, 84, Number(0), Dong("A")) }

RowSets == UNION {[1..n -> SampleRows] : n \in 1..MaxDeals}

Frac(n, d) == [num |-> n, den |-> d]

Abs(x) == IF x < 0 THEN 0 - x ELSE x

RECURSIVE SumSeq(_)
SumSeq(s) == IF s = <<>> THEN 0 ELSE Head(s) + SumSeq(Tail(s))

RECURSIVE Sorted(_)
\* the values of s in ascending order
Sorted(s) ==
    IF s = <<>> THEN <<>>
    ELSE LET rest == Sorted(Tail(s))
             below == SelectSeq(rest, LAMBDA x : x <= Head(s))
             above == SelectSeq(rest, LAMBDA x : x > Head(s))
         IN  below \o <<Head(s)>> \o above

\* Series.mean(), as a fraction
mean(s) == Frac(SumSeq(s), Len(s))

\* Series.median(): the middle value, or the mean of the two middle values
median(s) ==
    LET t == Sorted(s)
        n == Len(s)
    IN  IF n % 2 = 1 THEN Frac(t[(n + 1) \div 2], 1)
        ELSE Frac(t[n \div 2] + t[n \div 2 + 1], 2)

\* (series - m).abs(), every term multiplied by the denominator of m
abs_diff(s, m) == [i \in 1..Len(s) |-> Abs(s[i] * m.den - m.num)]

\* An index of the minimum that prefers the last occurrence.
idxmin_last(s) ==
    CHOOSE i \in 1..Len(s) :
        /\ \A j \in 1..Len(s) : s[i] <= s[j]
        /\ \A j \in (i + 1)..Len(s) : s[j] > s[i]

\* Series.idxmin(): the label of the first occurrence of the minimum
idxmin(s) ==
    CHOOSE i \in 1..Len(s) :
        /\ \A j \in 1..Len(s) : s[i] <= s[j]
        /\ \A j \in 1..(i - 1) : s[j] > s[i]

\* Series.idxmax(): the label of the first occurrence of the maximum
idxmax(s) ==
    CHOOSE i \in 1..Len(s) :
        /\ \A j \in 1..Len(s) : s[i] >= s[j]
        /\ \A j \in 1..(i - 1) : s[j] < s[i]

age_bins == <<0, 6, 11, 21>>

age_labels == <<"5 years or newer", "6-10 years", "11-20 years", "over 20 years">>

area_bins == <<0, 100, 300, 1000>>

area_labels == <<"small (<100m2)", "medium (100-300m2)", "large (300-1000m2)",
                 "extra_large (>1000m2)">>

NoBucket == "NaN"

\* A cut whose intervals are closed on the right.
cut_right_closed(x, bins, labels) ==
    IF ~x.ok THEN NoBucket
    ELSE LET hit == {k \in 1..Len(labels) :
                        bins[k] < x.val /\ (k = Len(labels) \/ x.val <= bins[k + 1])}
         IN  IF hit = {} THEN NoBucket ELSE labels[CHOOSE k \in hit : TRUE]

\* pd.cut(x, bins=bins + [np.inf], labels=labels, right=False)
cut(x, bins, labels) ==
    IF ~x.ok THEN NoBucket
    ELSE LET hit == {k \in 1..Len(labels) :
                        bins[k] <= x.val /\ (k = Len(labels) \/ x.val < bins[k + 1])}
         IN  IF hit = {} THEN NoBucket ELSE labels[CHOOSE k \in hit : TRUE]

\* groupby(<bucket column>, observed=True) ... 'size': the observed buckets
\* with their counts
bucket_counts(col) ==
    [l \in {col[i] : i \in 1..Len(col)} \ {NoBucket} |->
        Cardinality({i \in 1..Len(col) : col[i] = l})]

\* A grouping that keeps the rows without a key as a group of their own.
group_counts_keep_missing(col) ==
    [g \in {col[i].name : i \in 1..Len(col)} |->
        Cardinality({i \in 1..Len(col) : col[i].name = g})]

\* groupby(<key column>) ... 'size': rows with a missing key are left out
group_counts(col) ==
    [g \in {col[i].name : i \in {j \in 1..Len(col) : col[j].ok}} |->
        Cardinality({i \in 1..Len(col) : col[i].ok /\ col[i].name = g})]

NoStats ==
    [done |-> FALSE, rent_type |-> "none", raised |-> FALSE, monthly |-> FALSE,
     highestPriceDeal |-> 0, lowestPriceDeal |-> 0,
     dealClosestToAverage |-> 0, dealClosestToMedian |-> 0,
     age_stats |-> <<>>, scale_stats |-> <<>>, location_stats |-> <<>>]

\* The sections computed from the cleaned rows; a representative deal is
\* given by its position in the cleaned rows, a section by the
\* transactionCount of each of its entries.
summarize(rows) ==
    LET prices == [i \in 1..Len(rows) |-> rows[i].price]
    IN  [done |-> TRUE, rent_type |-> "none", raised |-> FALSE, monthly |-> FALSE,
         highestPriceDeal |-> idxmax(prices),
         lowestPriceDeal |-> idxmin(prices),
         dealClosestToAverage |-> idxmin(abs_diff(prices, mean(prices))),
         dealClosestToMedian |-> idxmin(abs_diff(prices, median(prices))),
         age_stats |-> bucket_counts([i \in 1..Len(rows) |->
                                        cut(rows[i].age, age_bins, age_labels)]),
         scale_stats |-> bucket_counts([i \in 1..Len(rows) |->
                                          cut(Number(rows[i].area), area_bins, area_labels)]),
         location_stats |-> group_counts([i \in 1..Len(rows) |-> rows[i].dong])]

StatsIdle ==
    /\ deals = <<>>
    /\ stats = NoStats

----------------------------------------------------------------------------
(* The unit-tagged formatter as_value_unit.                                 *)

\* A value handed to the formatter: NaN or None, a Python int, or a float
\* (the fraction num / den).
NaNValue == [kind |-> "nan", num |-> 0, den |-> 1]

IntValue(n) == [kind |-> "int", num |-> n, den |-> 1]

FloatValue(n, d) == [kind |-> "float", num |-> n, den |-> d]

\* The unit labels the formatter is called with: '만원', '만원/평', '㎡',
\* '년', '층'; it relabels the first two to '원' and '원/평'.
Units == {"manwon", "manwon/pyeong", "m2", "nyeon", "cheung"}

Values ==
    { NaNValue,
      IntValue(0), IntValue(5), IntValue(2005), IntValue(50000),
      FloatValue(0, 1), FloatValue(84, 1), FloatValue(50000, 1),
      FloatValue(1, 2), FloatValue(5, 2), FloatValue(7, 2), FloatValue(0 - 1, 2),
      FloatValue(500, 3), FloatValue(849, 10) }

\* round(v): the nearest integer, a half going to the even neighbour
round_half_even(n, d) ==
    LET q == n \div d
        r == n % d
    IN  IF 2 * r < d THEN q
        ELSE IF 2 * r > d THEN q + 1
        ELSE IF q % 2 = 0 THEN q ELSE q + 1

NotFormatted == [by |-> "none", null |-> FALSE, value |-> NaNValue, unit |-> "none"]

\* A column handed to the formatter (DataFrame.apply passes each column).
SeriesValue == [kind |-> "series", num |-> 0, den |-> 1]

\* if pd.isna(value): ValueError, the truth value of a Series is ambiguous
Ambiguous == [by |-> "as_value_unit", null |-> FALSE, value |-> NaNValue, unit |-> "ValueError"]

\* return None
Null == [by |-> "as_value_unit", null |-> TRUE, value |-> NaNValue, unit |-> "none"]

\* return {"value": v, "unit": unit_str}
Pair(v, u) == [by |-> "as_value_unit", null |-> FALSE, value |-> v, unit |-> u]

\* A formatter that rescales whatever the unit is.
as_value_unit_rescales_all(v, u) ==
    IF v.kind = "nan" THEN Null
    ELSE Pair(FloatValue(v.num * 10000, v.den),
              IF u = "manwon" THEN "won" ELSE IF u = "manwon/pyeong" THEN "won/pyeong" ELSE u)

\* A formatter that takes 0 for a missing value.
as_value_unit_zero_is_null(v, u) ==
    IF v.kind = "nan" \/ v.num = 0 THEN Null
    ELSE IF u = "manwon" THEN Pair(FloatValue(v.num * 10000, v.den), "won")
    ELSE IF u = "manwon/pyeong" THEN Pair(FloatValue(v.num * 10000, v.den), "won/pyeong")
    ELSE IF v.kind = "int" THEN Pair(IntValue(v.num), u)
    ELSE Pair(IntValue(round_half_even(v.num, v.den)), u)

\* as_value_unit(value, unit_str, precision=0); for a Series pd.isna(value)
\* is a Series, whose truth value 'if' refuses with ValueError
as_value_unit(v, u) ==
    IF v.kind = "series" THEN Ambiguous
    ELSE IF v.kind = "nan" THEN Null
    ELSE IF u = "manwon" THEN Pair(FloatValue(v.num * 10000, v.den), "won")
    ELSE IF u = "manwon/pyeong" THEN Pair(FloatValue(v.num * 10000, v.den), "won/pyeong")
    ELSE IF v.kind = "int" THEN Pair(IntValue(v.num), u)
    ELSE Pair(IntValue(round_half_even(v.num, v.den)), u)

\* clean_deal_for_display, one numeric field of the deal:
\* v = float(deal_dict[k]) if deal_dict[k] is not None else None;
\* deal_dict[k] = as_value_unit(v, unit)
clean_deal_field(v, u) ==
    [as_value_unit(IF v.kind = "int" THEN FloatValue(v.num, 1) ELSE v, u)
        EXCEPT !.by = "clean_deal_for_display"]

\* analyze_rent_type(df_rent_type, rent_type_name) on a non-empty partition:
\* the deposit statistics, for wolse the monthly rent statistics, and, when a
\* complex or building name is present, groupby(name).agg(transactionCount,
\* averageDeposit).apply(lambda x: x.astype(int) if x.name ==
\* 'transactionCount' else as_value_unit_m(x)), which hands the averageDeposit
\* column to the formatter.
analyze_rent_type(rows, rent_type_name) ==
    LET deposits == [i \in 1..Len(rows) |-> rows[i].price]
        names == [i \in 1..Len(rows) |-> rows[i].dong]
        named == \E i \in 1..Len(rows) : names[i].ok
        failed == named /\ as_value_unit(SeriesValue, "manwon").unit = "ValueError"
    IN  [NoStats EXCEPT
            !.rent_type = rent_type_name,
            !.raised = failed,
            !.monthly = (rent_type_name = "wolse"),
            !.highestPriceDeal = idxmax(deposits),
            !.lowestPriceDeal = idxmin(deposits),
            !.location_stats = IF failed \/ ~named THEN <<>> ELSE group_counts(names)]

FormatIdle ==
    /\ value = NaNValue
    /\ unit_str = "none"
    /\ formatted = NotFormatted

FetchIdle ==
    /\ resolution = NoResolution
    /\ conversion = NoConversion
    /\ split = NoSplit

AnalysisIdle ==
    /\ df = <<>>
    /\ result = NoResult
    /\ FetchIdle
    /\ StatsIdle
    /\ FormatIdle

----------------------------------------------------------------------------
(* Paginated collection: the four copies of the page loop.                  *)

\* No loop of the source can reach this page; the guard only keeps a loop
\* that never ends from growing the state space without bound.
PageCap == MaxTotal + 1

\* NRGTradeAPI.get_trade_data (apis/nrg_trade.py), the get_nrg_trade_data
\* tool (tools/transaction_tools.py), get_nrg_trade_data of apis/molit_api.py
\* and the get_officetel_rent_data tool (mcp_get_officetel_rent_data calling
\* apis/officetel_rent.py).
Variants == {"NRGTradeAPI.get_trade_data", "get_nrg_trade_data",
             "molit_api.get_nrg_trade_data", "mcp_get_officetel_rent_data"}

\* The functions registered as tools.
ToolFacing == {"get_nrg_trade_data", "mcp_get_officetel_rent_data"}

\* The loops that parse totalCount with int().
IntLoops == Variants \ {"mcp_get_officetel_rent_data"}

\* The text of a response's totalCount element: absent, blank, not a number,
\* decimal digits of n, digits of n with surrounding whitespace, or "-n".
TotalTexts ==
    {[kind |-> k, n |-> 0] : k \in {"absent", "blank", "junk"}}
    \cup {[kind |-> k, n |-> n] : k \in {"digits", "padded", "negative"}, n \in 0..MaxTotal}

\* total_count = int(tc_text) if tc_text is not None and tc_text.strip() != ''
\* else 0; except Exception: 0
total_count_int(tc) ==
    CASE tc.kind \in {"digits", "padded"} -> tc.n
      [] tc.kind = "negative" -> 0 - tc.n
      [] OTHER -> 0

\* A loop that never reads the total.
total_count_unread(tc) == 0

\* if tc_text and tc_text.isdigit(): total_count = int(tc_text)   (else stays 0)
total_count_isdigit(tc) == IF tc.kind = "digits" THEN tc.n ELSE 0

NoneTotal == [known |-> FALSE, val |-> 0]

Known(n) == [known |-> TRUE, val |-> n]

\* The loop's total_count after parsing a response: the int() loops parse
\* while total_count is None, the officetel loop when page_no == 1.
parse_total(v, tc, old, page) ==
    IF v \in IntLoops
    THEN IF old.known THEN old ELSE Known(total_count_int(tc))
    ELSE IF page = 1 THEN Known(total_count_isdigit(tc)) ELSE old

\* The items of page p when it carries n of them.
PageItems(p, n) == [i \in 1..n |-> <<p, i>>]

\* A loop that stops only once the total is reached.
loop_breaks_ignoring_empty(v, n, len, total, page) == len >= total

\* A loop that asks for one page more once the total is reached exactly.
loop_breaks_beyond_total(v, n, len, total, page) == n = 0 \/ len > total

\* A loop that stops on an empty page only.
loop_breaks_on_empty_only(v, n, len, total, page) == n = 0

\* The break tests after all_items.extend(items); len is len(all_items):
\*   nrg_trade.py: not items or (total_count is not None and len >= total_count)
\*   transaction_tools.py, molit_api.py: len >= total_count or not items
\*   officetel_rent.py: not items / total_count == 0 and page_no == 1 /
\*                      len >= total_count
loop_breaks(v, n, len, total, page) ==
    IF v \in IntLoops
    THEN n = 0 \/ len >= total
    ELSE n = 0 \/ (total = 0 /\ page = 1) \/ len >= total

NoData == [tag |-> "none", items |-> <<>>]

DataFile(tag, items) == [exists |-> TRUE, content |-> [tag |-> tag, items |-> items]]

NoDataFile == [exists |-> FALSE, content |-> NoData]

NoOutcome == [kind |-> "none", cause |-> "none", records |-> <<>>]

\* utils/ctx_helper.with_context: an exception raised by the wrapped call
\* reaches the agent as a result carrying an error field.
with_context(kind) == IF kind = "raised" THEN "error" ELSE kind

\* How an exception raised inside variant v leaves v: the get_nrg_trade_data
\* tool runs its call under with_context, mcp_get_officetel_rent_data calls
\* get_officetel_rent_data bare, the api-level functions raise to the caller.
Raised(v, cause) ==
    [kind |-> IF v = "get_nrg_trade_data" THEN with_context("raised") ELSE "raised",
     cause |-> cause, records |-> <<>>]

PagingIdle ==
    /\ variant = "none"
    /\ pc = "idle"
    /\ page_no = 1
    /\ total_count = NoneTotal
    /\ all_items = <<>>
    /\ requested = <<>>
    /\ served = <<>>
    /\ reported = [kind |-> "absent", n |-> 0]
    /\ records = <<>>
    /\ pre_file = NoDataFile
    /\ file_writes = 0
    /\ outcome = NoOutcome

\* A function that never finds its data file.
cache_file_never_found(d) == FALSE

\* get_officetel_rent_data: if os.path.exists(cache_file): return f.read()
\* (existence is all that is tested, no modification time is read)
cache_file_exists(d) == d.exists

loopVars == <<page_no, total_count, all_items, requested, served, reported, records>>

\* Entry of a collecting function up to its first page request.
Begin(v) ==
    /\ pc = "idle"
    /\ credential
    /\ v # "molit_api.get_nrg_trade_data"
    /\ ~(v = "mcp_get_officetel_rent_data" /\ cache_file_exists(datafile))
    /\ variant' = v
    /\ pc' = "loop"
    /\ total_count' = IF v \in IntLoops THEN NoneTotal ELSE Known(0)
    /\ pre_file' = datafile
    /\ UNCHANGED <<page_no, all_items, requested, served, reported, records,
                   datafile, file_writes, outcome>>
    /\ UNCHANGED <<cacheVars, analysisVars, raceVars, envVars>>

\* molit_api.get_nrg_trade_data: a first request without paging parameters,
\* whose body is written to NRG_<lawd_cd>_<deal_ymd>.xml before the loop.
BeginMolit(ok) ==
    /\ pc = "idle"
    /\ credential
    /\ variant' = "molit_api.get_nrg_trade_data"
    /\ pre_file' = datafile
    /\ IF ok
       THEN /\ pc' = "loop"
            /\ datafile' = DataFile("response", <<>>)
            /\ file_writes' = 1
            /\ UNCHANGED outcome
       ELSE /\ pc' = "failed"
            /\ outcome' = Raised("molit_api.get_nrg_trade_data", "first_request")
            /\ UNCHANGED <<datafile, file_writes>>
    /\ UNCHANGED loopVars
    /\ UNCHANGED <<cacheVars, analysisVars, raceVars, envVars>>

\* get_officetel_rent_data: the data file exists, its text is returned.
BeginOfficetelCached ==
    /\ pc = "idle"
    /\ credential
    /\ cache_file_exists(datafile)
    /\ variant' = "mcp_get_officetel_rent_data"
    /\ pc' = "done"
    /\ pre_file' = datafile
    /\ outcome' = [kind |-> "cached", cause |-> "none", records |-> datafile.content.items]
    /\ UNCHANGED <<datafile, file_writes>>
    /\ UNCHANGED loopVars
    /\ UNCHANGED <<cacheVars, analysisVars, raceVars, envVars>>

\* The request for page_no fails (for the NRG loops: curl and requests both):
\* raise RuntimeError, or fetch_data raises.
PageFails ==
    /\ pc = "loop"
    /\ page_no <= PageCap
    /\ requested' = Append(requested, page_no)
    /\ pc' = "failed"
    /\ outcome' = Raised(variant, "request")
    /\ UNCHANGED <<variant, page_no, total_count, all_items, served, reported, records,
                   datafile, pre_file, file_writes>>
    /\ UNCHANGED <<cacheVars, analysisVars, raceVars, envVars>>

\* The request is answered with a body that is not XML: ET.fromstring raises.
PageMalformed ==
    /\ pc = "loop"
    /\ page_no <= PageCap
    /\ requested' = Append(requested, page_no)
    /\ pc' = "failed"
    /\ outcome' = Raised(variant, "parse")
    /\ UNCHANGED <<variant, page_no, total_count, all_items, served, reported, records,
                   datafile, pre_file, file_writes>>
    /\ UNCHANGED <<cacheVars, analysisVars, raceVars, envVars>>

\* The request is answered with totalCount text tc and n items, and the loop
\* goes on: page_no += 1
PageContinue(tc, n) ==
    LET total == parse_total(variant, tc, total_count, page_no)
        acc == all_items \o PageItems(page_no, n)
    IN  /\ pc = "loop"
        /\ page_no <= PageCap
        /\ ~loop_breaks(variant, n, Len(acc), total.val, page_no)
        /\ requested' = Append(requested, page_no)
        /\ served' = Append(served, n)
        /\ reported' = IF page_no = 1 THEN tc ELSE reported
        /\ total_count' = total
        /\ all_items' = acc
        /\ page_no' = page_no + 1
        /\ UNCHANGED <<variant, pc, records, datafile, pre_file, file_writes, outcome>>
        /\ UNCHANGED <<cacheVars, analysisVars, raceVars, envVars>>

\* The request is answered and the loop breaks; the rest of the function
\* runs: records are built from all_items; without records the no-data result
\* is returned and nothing is written; molit_api's get_col returns a column
\* name, on which .map raises AttributeError; the others write the data file
\* and return the result.
PageLast(tc, n) ==
    LET total == parse_total(variant, tc, total_count, page_no)
        acc == all_items \o PageItems(page_no, n)
    IN  /\ pc = "loop"
        /\ page_no <= PageCap
        /\ loop_breaks(variant, n, Len(acc), total.val, page_no)
        /\ requested' = Append(requested, page_no)
        /\ served' = Append(served, n)
        /\ reported' = IF page_no = 1 THEN tc ELSE reported
        /\ total_count' = total
        /\ all_items' = acc
        /\ records' = acc
        /\ IF acc = <<>>
           THEN /\ pc' = "done"
                /\ outcome' = [kind |-> "nodata", cause |-> "none", records |-> <<>>]
                /\ UNCHANGED <<datafile, file_writes>>
           ELSE IF variant = "molit_api.get_nrg_trade_data"
           THEN /\ pc' = "failed"
                /\ outcome' = Raised(variant, "after_loop")
                /\ UNCHANGED <<datafile, file_writes>>
           ELSE /\ pc' = "done"
                /\ outcome' = [kind |-> "result", cause |-> "none", records |-> acc]
                /\ datafile' = DataFile("collected", acc)
                /\ file_writes' = file_writes + 1
        /\ UNCHANGED <<variant, page_no, pre_file>>
        /\ UNCHANGED <<cacheVars, analysisVars, raceVars, envVars>>

\* The call is over; the next one starts from the data file it left.
NewCall ==
    /\ pc \in {"done", "failed"}
    /\ variant' = "none"
    /\ pc' = "idle"
    /\ page_no' = 1
    /\ total_count' = NoneTotal
    /\ all_items' = <<>>
    /\ requested' = <<>>
    /\ served' = <<>>
    /\ reported' = [kind |-> "absent", n |-> 0]
    /\ records' = <<>>
    /\ pre_file' = NoDataFile
    /\ file_writes' = 0
    /\ outcome' = NoOutcome
    /\ UNCHANGED datafile
    /\ UNCHANGED <<cacheVars, analysisVars, raceVars, envVars>>

----------------------------------------------------------------------------
(* The analyze_* handlers (eleven copies of one body).                      *)

NoCall == [tool |-> "none", kind |-> "none", body |-> <<>>, summary_cached_path |-> "none",
           preArt |-> NoFile, preSrc |-> NoSource, wrote |-> FALSE,
           repeat |-> FALSE, prevKind |-> "none"]

\* The record of one call: what it returned (kind, body, summary_cached_path)
\* and what it found and did (preArt, preSrc: the two files as the call found
\* them; wrote: whether it opened the artifact for writing; repeat: whether
\* the previous file operation was a call of the same tool, so that the
\* source is unchanged between the two; prevKind: how that call ended).
Returned(t, k, b, scp, w) ==
    [tool |-> t, kind |-> k, body |-> b, summary_cached_path |-> scp,
     preArt |-> IF source.exists THEN artifact[cache_path(t)] ELSE NoFile,
     preSrc |-> source, wrote |-> w,
     repeat |-> (ret.tool = t), prevKind |-> IF ret.tool = t THEN ret.kind ELSE "none"]

\* if not p.exists(): return {"error": "file not found"}
AnalyzeMissing(t) ==
    /\ ~source.exists
    /\ ret' = Returned(t, "nofile", <<"error">>, "none", FALSE)
    /\ UNCHANGED <<now, category, source, artifact>>
    /\ UNCHANGED <<pagingVars, analysisVars, raceVars, envVars>>

\* A handler that falls through to the recomputation after a cache hit.
AnalyzeHitRewrites(t) ==
    /\ source.exists
    /\ Fresh(artifact[cache_path(t)], source)
    /\ artifact' = [artifact EXCEPT ![cache_path(t)] = File(Summary(t, source.content), now)]
    /\ ret' = Returned(t, "cached", artifact[cache_path(t)].content, "none", TRUE)
    /\ UNCHANGED <<now, category, source>>
    /\ UNCHANGED <<pagingVars, analysisVars, raceVars, envVars>>

\* valid cache: return f.read()
AnalyzeHit(t) ==
    /\ source.exists
    /\ Fresh(artifact[cache_path(t)], source)
    /\ ret' = Returned(t, "cached", artifact[cache_path(t)].content, "none", FALSE)
    /\ UNCHANGED <<now, category, source, artifact>>
    /\ UNCHANGED <<pagingVars, analysisVars, raceVars, envVars>>

\* pd.read_json or the analysis function raises: except Exception -> error
AnalyzeRaise(t) ==
    /\ source.exists
    /\ ~Fresh(artifact[cache_path(t)], source)
    /\ source.content \notin GoodContents
    /\ ret' = Returned(t, "error", <<"error">>, "none", FALSE)
    /\ UNCHANGED <<now, category, source, artifact>>
    /\ UNCHANGED <<pagingVars, analysisVars, raceVars, envVars>>

\* recompute, json.dump to cache_path, add summary_cached_path, return
AnalyzeCompute(t) ==
    /\ source.exists
    /\ ~Fresh(artifact[cache_path(t)], source)
    /\ source.content \in GoodContents
    /\ artifact' = [artifact EXCEPT ![cache_path(t)] = File(Summary(t, source.content), now)]
    /\ ret' = Returned(t, "computed", Summary(t, source.content), cache_path(t), TRUE)
    /\ UNCHANGED <<now, category, source>>
    /\ UNCHANGED <<pagingVars, analysisVars, raceVars, envVars>>

\* recompute, open(cache_path, 'w') truncates, json.dump fails part-way
AnalyzeDumpFail(t) ==
    /\ source.exists
    /\ ~Fresh(artifact[cache_path(t)], source)
    /\ source.content \in GoodContents
    /\ artifact' = [artifact EXCEPT ![cache_path(t)] = File(<<Partial>>, now)]
    /\ ret' = Returned(t, "error", <<"error">>, "none", TRUE)
    /\ UNCHANGED <<now, category, source>>
    /\ UNCHANGED <<pagingVars, analysisVars, raceVars, envVars>>

Analyze(t) ==
    /\ ToolTable[t].property_type = category
    /\ \/ AnalyzeMissing(t)
       \/ AnalyzeHit(t)
       \/ AnalyzeRaise(t)
       \/ AnalyzeCompute(t)
       \/ AnalyzeDumpFail(t)

----------------------------------------------------------------------------
(* Concurrent analyze_* calls on one source: the handler body taken step by *)
(* step (freshness test, read of the artifact, read of the source,          *)
(* open(cache_path, 'w'), json.dump), callers interleaving between steps.   *)

Callers == {"c1", "c2"}

\* A caller: where it is in the handler body (idle, hit, miss, analysed,
\* dumping, done), the source content it read, what it returned (kind, body)
\* and the source content at the moment it returned.
IdleCaller == [pc |-> "idle", read |-> "none", kind |-> "none", body |-> <<>>,
               source_then |-> "none"]

RaceIdle == calls = [i \in Callers |-> IdleCaller]

\* The handler the callers run on a source of the category.
RaceTool ==
    IF category = "commercial" THEN "analyze_commercial_property_trade"
    ELSE "analyze_apartment_rent"

----------------------------------------------------------------------------
(* The source file and the clock.                                           *)

\* The fetch layer (or anything else) writes the raw data file.
WriteSource(c) ==
    /\ source' = File(c, now)
    /\ ret' = NoCall
    /\ UNCHANGED <<now, category, artifact>>
    /\ UNCHANGED <<pagingVars, analysisVars, raceVars, envVars>>

Tick ==
    /\ now < MaxTime
    /\ now' = now + 1
    /\ UNCHANGED <<category, source, artifact, ret>>
    /\ UNCHANGED <<pagingVars, analysisVars, raceVars, envVars>>

CacheInit ==
    /\ now = 0
    /\ category \in Categories
    /\ source = NoSource
    /\ artifact = [p \in CachePaths |-> NoFile]
    /\ ret = NoCall
    /\ PagingIdle
    /\ RaceIdle
    /\ credential = TRUE
    /\ datafile = NoDataFile
    /\ AnalysisIdle

CacheNext ==
    \/ \E t \in Tools : Analyze(t)
    \/ \E c \in Contents : WriteSource(c)
    \/ Tick

SpecCache == CacheInit /\ [][CacheNext]_vars

CacheIdle ==
    /\ now = 0
    /\ category = "commercial"
    /\ source = NoSource
    /\ artifact = [p \in CachePaths |-> NoFile]
    /\ ret = NoCall

PagingInit ==
    /\ CacheIdle
    /\ PagingIdle
    /\ RaceIdle
    /\ credential = TRUE
    /\ datafile \in {NoDataFile, DataFile("earlier", <<>>)}
    /\ AnalysisIdle

PageStep ==
    \/ PageFails
    \/ PageMalformed
    \/ \E tc \in TotalTexts, n \in 0..MaxPageItems : PageContinue(tc, n)
    \/ \E tc \in TotalTexts, n \in 0..MaxPageItems : PageLast(tc, n)

PagingNext ==
    \/ \E v \in Variants : Begin(v)
    \/ \E ok \in BOOLEAN : BeginMolit(ok)
    \/ BeginOfficetelCached
    \/ PageFails
    \/ PageMalformed
    \/ \E tc \in TotalTexts, n \in 0..MaxPageItems : PageContinue(tc, n)
    \/ \E tc \in TotalTexts, n \in 0..MaxPageItems : PageLast(tc, n)
    \/ NewCall

SpecPaging == PagingInit /\ [][PagingNext]_vars

\* Every request of the loop is a blocking call that returns or raises, and
\* the loop is straight-line code between two requests.
SpecPagingFair == PagingInit /\ [][PagingNext]_vars /\ WF_vars(PageStep)

----------------------------------------------------------------------------
(* Operations started while PUBLIC_DATA_API_KEY_ENCODED is not configured.  *)

\* The functions that test the credential themselves: the get_nrg_trade_data
\* tool and molit_api.get_nrg_trade_data read the environment and raise
\* ValueError; get_officetel_rent_data constructs MolitApiClient() first.
CredentialTesting == {"get_nrg_trade_data", "molit_api.get_nrg_trade_data",
                      "mcp_get_officetel_rent_data"}

\* if not api_key: raise ValueError("환경변수 PUBLIC_DATA_API_KEY_ENCODED가
\* 설정되어 있지 않습니다.")
BeginWithoutCredential(v) ==
    /\ pc = "idle"
    /\ ~credential
    /\ v \in CredentialTesting
    /\ variant' = v
    /\ pc' = "failed"
    /\ pre_file' = datafile
    /\ outcome' = Raised(v, "missing_credential")
    /\ UNCHANGED <<datafile, file_writes>>
    /\ UNCHANGED loopVars
    /\ UNCHANGED <<cacheVars, analysisVars, raceVars, envVars>>

\* RealEstateClient(config=realestate_config): realestate_config is None
\* when RealEstateConfig.from_env() raised, and self.config.api_key then
\* raises AttributeError before the test of the key is reached.
NewClient ==
    /\ pc = "idle"
    /\ variant' = "RealEstateClient"
    /\ pre_file' = datafile
    /\ IF credential
       THEN /\ pc' = "done"
            /\ outcome' = [kind |-> "client", cause |-> "none", records |-> <<>>]
       ELSE /\ pc' = "failed"
            /\ outcome' = [kind |-> "raised", cause |-> "AttributeError", records |-> <<>>]
    /\ UNCHANGED <<datafile, file_writes>>
    /\ UNCHANGED loopVars
    /\ UNCHANGED <<cacheVars, analysisVars, raceVars, envVars>>

StartupInit ==
    /\ CacheIdle
    /\ PagingIdle
    /\ RaceIdle
    /\ credential \in BOOLEAN
    /\ datafile \in {NoDataFile, DataFile("earlier", <<>>)}
    /\ AnalysisIdle

StartupNext ==
    \/ PagingNext
    \/ \E v \in Variants : BeginWithoutCredential(v)
    \/ NewClient

SpecStartup == StartupInit /\ [][StartupNext]_vars

----------------------------------------------------------------------------
(* Running an analysis function on a record set.                            *)

AnalyzeData(fn) ==
    /\ result.fn = "none"
    /\ result' = analyze_data(fn, df)
    /\ UNCHANGED <<df, fetchVars, statsVars, formatVars>>
    /\ UNCHANGED <<cacheVars, pagingVars, raceVars, envVars>>

AnalysisInit ==
    /\ CacheIdle
    /\ PagingIdle
    /\ RaceIdle
    /\ credential = TRUE
    /\ datafile = NoDataFile
    /\ df \in RecordSets
    /\ result = NoResult
    /\ FetchIdle
    /\ StatsIdle
    /\ FormatIdle

AnalysisNext == \E fn \in AnalysisFns : AnalyzeData(fn)

SpecAnalysis == AnalysisInit /\ [][AnalysisNext]_vars

----------------------------------------------------------------------------
(* Applying the resolvers and conversions to the frame of collected items.  *)

\* One resolver with its numeric step, for one concept.
Resolve(impl, c) ==
    /\ resolution.impl = "none"
    /\ conversion.impl = "none"
    /\ ~split.done
    /\ c \in ResolvedConcepts(impl)
    /\ resolution' = [impl |-> impl, concept |-> c,
                      raised |-> resolve_numeric(impl, df, Candidates(impl, c)).raised,
                      column |-> resolve_numeric(impl, df, Candidates(impl, c)).column]
    /\ UNCHANGED <<df, result, conversion, split, statsVars, formatVars>>
    /\ UNCHANGED <<cacheVars, pagingVars, raceVars, envVars>>

\* One conversion of the cell of row i in column k.
Convert(impl, i, k) ==
    /\ resolution.impl = "none"
    /\ conversion.impl = "none"
    /\ ~split.done
    /\ i \in 1..Len(df)
    /\ k \in Columns(df)
    /\ conversion' = [impl |-> impl, input |-> Cell(df, i, k),
                      raised |-> to_num(impl, Cell(df, i, k)).raised,
                      num |-> to_num(impl, Cell(df, i, k)).num]
    /\ UNCHANGED <<df, result, resolution, split, statsVars, formatVars>>
    /\ UNCHANGED <<cacheVars, pagingVars, raceVars, envVars>>

\* get_officetel_rent_data splits the frame.
OfficetelSplit ==
    /\ resolution.impl = "none"
    /\ conversion.impl = "none"
    /\ ~split.done
    /\ split' = officetel_rent_split(df)
    /\ UNCHANGED <<df, result, resolution, conversion, statsVars, formatVars>>
    /\ UNCHANGED <<cacheVars, pagingVars, raceVars, envVars>>

FetchInit ==
    /\ CacheIdle
    /\ PagingIdle
    /\ RaceIdle
    /\ credential = TRUE
    /\ datafile = NoDataFile
    /\ df \in ItemSets
    /\ result = NoResult
    /\ FetchIdle
    /\ StatsIdle
    /\ FormatIdle

FetchNext ==
    \/ \E impl \in Resolvers, c \in Concepts : Resolve(impl, c)
    \/ \E impl \in Resolvers, i \in 1..MaxRecords, k \in AllKeys : Convert(impl, i, k)
    \/ OfficetelSplit

SpecFetch == FetchInit /\ [][FetchNext]_vars

----------------------------------------------------------------------------
(* Computing the statistics sections from the cleaned rows.                 *)

Summarize ==
    /\ ~stats.done
    /\ stats.rent_type = "none"
    /\ stats' = summarize(deals)
    /\ UNCHANGED <<df, result, fetchVars, deals, formatVars>>
    /\ UNCHANGED <<cacheVars, pagingVars, raceVars, envVars>>

StatsInit ==
    /\ CacheIdle
    /\ PagingIdle
    /\ RaceIdle
    /\ credential = TRUE
    /\ datafile = NoDataFile
    /\ df = <<>>
    /\ result = NoResult
    /\ FetchIdle
    /\ deals \in RowSets
    /\ stats = NoStats
    /\ FormatIdle

\* jeonse_analysis = analyze_rent_type(df_jeonse, 'jeonse');
\* wolse_analysis = analyze_rent_type(df_wolse, 'wolse')
AnalyzeRentType(rent_type_name) ==
    /\ ~stats.done
    /\ stats.rent_type = "none"
    /\ stats' = analyze_rent_type(deals, rent_type_name)
    /\ UNCHANGED <<df, result, fetchVars, deals, formatVars>>
    /\ UNCHANGED <<cacheVars, pagingVars, raceVars, envVars>>

StatsNext ==
    \/ Summarize
    \/ \E n \in {"jeonse", "wolse"} : AnalyzeRentType(n)

SpecStats == StatsInit /\ [][StatsNext]_vars

----------------------------------------------------------------------------
(* Formatting a value.                                                      *)

\* as_value_unit(value, unit_str)
FormatValue ==
    /\ formatted.by = "none"
    /\ formatted' = as_value_unit(value, unit_str)
    /\ UNCHANGED <<df, result, fetchVars, statsVars, value, unit_str>>
    /\ UNCHANGED <<cacheVars, pagingVars, raceVars, envVars>>

\* clean_deal_for_display formats a field of a deal
DisplayField ==
    /\ formatted.by = "none"
    /\ formatted' = clean_deal_field(value, unit_str)
    /\ UNCHANGED <<df, result, fetchVars, statsVars, value, unit_str>>
    /\ UNCHANGED <<cacheVars, pagingVars, raceVars, envVars>>

FormatInit ==
    /\ CacheIdle
    /\ PagingIdle
    /\ RaceIdle
    /\ credential = TRUE
    /\ datafile = NoDataFile
    /\ df = <<>>
    /\ result = NoResult
    /\ FetchIdle
    /\ StatsIdle
    /\ value \in Values
    /\ unit_str \in Units
    /\ formatted = NotFormatted

FormatNext == FormatValue \/ DisplayField

SpecFormat == FormatInit /\ [][FormatNext]_vars

----------------------------------------------------------------------------
(* The steps of concurrent analyze_* calls.                                 *)

\* p.exists(); cache_path.exists() and cache_mtime > source_mtime
RaceCheck(i) ==
    /\ calls[i].pc = "idle"
    /\ source.exists
    /\ calls' = [calls EXCEPT ![i].pc =
                    IF Fresh(artifact[cache_path(RaceTool)], source) THEN "hit" ELSE "miss"]
    /\ UNCHANGED cacheVars
    /\ UNCHANGED <<pagingVars, analysisVars, envVars>>

\* with open(cache_path, 'r') as f: return f.read()
RaceReadCache(i) ==
    /\ calls[i].pc = "hit"
    /\ calls' = [calls EXCEPT ![i] =
                    [pc |-> "done", read |-> "none", kind |-> "cached",
                     body |-> artifact[cache_path(RaceTool)].content,
                     source_then |-> source.content]]
    /\ UNCHANGED cacheVars
    /\ UNCHANGED <<pagingVars, analysisVars, envVars>>

\* df = pd.read_json(p, lines=True); summary_data = analyze_*_data(df)
RaceReadSource(i) ==
    /\ calls[i].pc = "miss"
    /\ source.content \in GoodContents
    /\ calls' = [calls EXCEPT ![i].pc = "analysed", ![i].read = source.content]
    /\ UNCHANGED cacheVars
    /\ UNCHANGED <<pagingVars, analysisVars, envVars>>

\* open(cache_path, 'w'): the artifact is truncated
RaceOpenWrite(i) ==
    /\ calls[i].pc = "analysed"
    /\ artifact' = [artifact EXCEPT ![cache_path(RaceTool)] = File(<<>>, now)]
    /\ calls' = [calls EXCEPT ![i].pc = "dumping"]
    /\ UNCHANGED <<now, category, source, ret>>
    /\ UNCHANGED <<pagingVars, analysisVars, envVars>>

\* json.dump(summary_data, f, ...); return json.dumps(summary_data, ...)
RaceDump(i) ==
    /\ calls[i].pc = "dumping"
    /\ artifact' = [artifact EXCEPT ![cache_path(RaceTool)] =
                        File(Summary(RaceTool, calls[i].read), now)]
    /\ calls' = [calls EXCEPT ![i] =
                    [pc |-> "done", read |-> calls[i].read, kind |-> "computed",
                     body |-> Summary(RaceTool, calls[i].read),
                     source_then |-> source.content]]
    /\ UNCHANGED <<now, category, source, ret>>
    /\ UNCHANGED <<pagingVars, analysisVars, envVars>>

RaceInit ==
    /\ now = 1
    /\ category \in {"commercial", "apartment"}
    /\ source \in {File(c, 0) : c \in GoodContents}
    /\ artifact = [p \in CachePaths |-> NoFile]
    /\ ret = NoCall
    /\ RaceIdle
    /\ credential = TRUE
    /\ PagingIdle
    /\ datafile = NoDataFile
    /\ AnalysisIdle

RaceNext ==
    \/ \E i \in Callers : RaceCheck(i)
    \/ \E i \in Callers : RaceReadCache(i)
    \/ \E i \in Callers : RaceReadSource(i)
    \/ \E i \in Callers : RaceOpenWrite(i)
    \/ \E i \in Callers : RaceDump(i)
    \/ \E c \in GoodContents : WriteSource(c)
    \/ Tick

SpecRace == RaceInit /\ [][RaceNext]_vars

----------------------------------------------------------------------------
(* Claims about the summary cache *)

Called == ret.kind \notin {"none", "nofile"}

StrictlyNewer == ret.preArt.exists /\ ret.preArt.mtime > ret.preSrc.mtime

HitServed ==
    /\ ret.body = ret.preArt.content
    /\ ~ret.wrote
    /\ artifact[cache_path(ret.tool)] = ret.preArt

\* C1 as stated: a call on an existing source serves the stored artifact iff
\* the artifact exists and is strictly newer than the source, and in every
\* other case recomputes from the source and overwrites the artifact.
C1_AlwaysOverwrites ==
    Called =>
        /\ (ret.kind = "cached") <=> StrictlyNewer
        /\ ret.kind = "cached" => HitServed
        /\ ret.kind # "cached" =>
              /\ ret.kind = "computed"
              /\ ret.wrote
              /\ artifact[cache_path(ret.tool)].exists
              /\ artifact[cache_path(ret.tool)].content = Summary(ret.tool, ret.preSrc.content)

\* C1 amended: the stored artifact is served iff it exists and is strictly
\* newer than the source; in every other case (absent, older, equal mtime) the
\* call recomputes and never serves the stored artifact: when reading,
\* analysis and serialisation succeed the artifact is overwritten with the new
\* analysis, when reading or analysis raises the artifact is left as it was
\* and an error is returned, and when serialisation fails a truncated
\* artifact is left and an error is returned.
C1_FreshIffStrictlyNewer ==
    Called =>
        /\ (ret.kind = "cached") <=> StrictlyNewer
        /\ ret.kind = "cached" => HitServed
        /\ ret.kind = "computed" =>
              /\ ret.preSrc.content \in GoodContents
              /\ ret.wrote
              /\ ret.body = Summary(ret.tool, ret.preSrc.content)
              /\ artifact[cache_path(ret.tool)].exists
              /\ artifact[cache_path(ret.tool)].content = Summary(ret.tool, ret.preSrc.content)
              /\ artifact[cache_path(ret.tool)].mtime >= ret.preSrc.mtime
        /\ ret.kind = "error" =>
              /\ ~ret.wrote => /\ ret.preSrc.content \notin GoodContents
                               /\ artifact[cache_path(ret.tool)] = ret.preArt
              /\ ret.wrote => /\ ret.preSrc.content \in GoodContents
                              /\ artifact[cache_path(ret.tool)].content = <<Partial>>
        /\ ret.kind \in {"cached", "computed", "error"}

\* C1 witness: an artifact with the source's own mtime was not served but
\* recomputed and overwritten.
C1_Witness ==
    /\ ret.kind = "computed"
    /\ ret.preArt.exists
    /\ ret.preArt.mtime = ret.preSrc.mtime
    /\ artifact[cache_path(ret.tool)].mtime > ret.preArt.mtime

SecondCall == Called /\ ret.repeat /\ ret.prevKind \in {"cached", "computed", "error"}

\* C2 as stated: of two successive calls of one tool with the source
\* unchanged between them, the second does not rewrite the artifact: content
\* and mtime stay those the first call left.
C2_SecondNeverRewrites ==
    SecondCall =>
        /\ ~ret.wrote
        /\ artifact[cache_path(ret.tool)] = ret.preArt

\* C2 amended: the second call is a cache hit and rewrites nothing exactly
\* when the artifact the first call left is strictly newer than the source;
\* when the first call's write carries the source's own mtime, or the first
\* call failed before writing, the second call recomputes again.
C2_SecondHitsIffStrictlyNewer ==
    SecondCall =>
        /\ StrictlyNewer => (ret.kind = "cached" /\ HitServed)
        /\ ~StrictlyNewer => ret.kind # "cached"
        /\ (ret.prevKind = "computed" /\ ~StrictlyNewer) =>
              (ret.preArt.exists /\ ret.preArt.mtime = ret.preSrc.mtime)

\* C2 witness: a second call served the artifact the first call computed.
C2_Witness ==
    /\ SecondCall
    /\ ret.prevKind = "computed"
    /\ ret.kind = "cached"
    /\ ret.body = Summary(ret.tool, source.content)

----------------------------------------------------------------------------
(* Claims about the paginated collection *)

\* The total a first page reports, as a number: the value of a numeric text,
\* 0 for an absent, blank or non-numeric one.
ReportedTotal(tc) ==
    CASE tc.kind \in {"digits", "padded"} -> tc.n
      [] tc.kind = "negative" -> 0 - tc.n
      [] OTHER -> 0

RECURSIVE ItemsUpTo(_, _)
\* The number of items pages 1..j carried.
ItemsUpTo(s, j) == IF j = 0 THEN 0 ELSE ItemsUpTo(s, j - 1) + s[j]

RECURSIVE FlattenUpTo(_, _)
\* The items of pages 1..j in page order.
FlattenUpTo(s, j) == IF j = 0 THEN <<>> ELSE FlattenUpTo(s, j - 1) \o PageItems(j, s[j])

\* The loop has ended by its break: the record list has been built.
LoopExited == pc = "done" \/ (pc = "failed" /\ outcome.cause = "after_loop")

\* C3: every run of a page loop terminates, whatever totals and pages the
\* responses carry: a call that is in its loop leaves it, finished or failed.
C3_LoopTerminates == (pc = "loop") ~> (pc \in {"done", "failed"})

\* C3 witness: a loop ended on an empty page although the reported total
\* was never reached.
C3_Witness ==
    /\ pc = "done"
    /\ Len(requested) >= 2
    /\ served[Len(served)] = 0
    /\ Len(all_items) < total_count.val

\* C4: a collection of the NRG loops that did not fail requested exactly the
\* pages 1..k in order, k being the first page after which the accumulated
\* items reach the total T of the first page or which carried no item, and
\* its records are the items of pages 1..k in page order.
C4_PagesInOrderUntilTotal ==
    (variant \in IntLoops /\ LoopExited /\ outcome.kind # "cached") =>
        LET T == ReportedTotal(reported)
            k == Len(requested)
        IN  /\ k >= 1
            /\ requested = [i \in 1..k |-> i]
            /\ Len(served) = k
            /\ \A j \in 1..(k - 1) : served[j] > 0 /\ ItemsUpTo(served, j) < T
            /\ served[k] = 0 \/ ItemsUpTo(served, k) >= T
            /\ records = FlattenUpTo(served, k)

\* C4 witness: a collection over several pages that stopped on reaching the
\* reported total.
C4_Witness ==
    /\ variant \in IntLoops
    /\ pc = "done"
    /\ outcome.kind = "result"
    /\ Len(requested) >= 2
    /\ served[Len(served)] > 0
    /\ Len(records) >= ReportedTotal(reported)

\* C5 as stated: when the request for a page fails the collection fails: no
\* later page is requested, no partial list is returned, and the data file of
\* the (region, month) is neither created nor modified by the failed call.
C5_FailedRequestLeavesNoFile ==
    outcome.cause = "request" =>
        /\ pc = "failed"
        /\ outcome.kind \in {"raised", "error"}
        /\ requested[Len(requested)] = page_no
        /\ outcome.records = <<>>
        /\ records = <<>>
        /\ file_writes = 0
        /\ datafile = pre_file

\* C6 as stated: a tool-facing operation ends with a structured result, with
\* an error field when it failed, and never lets an exception through.
C6_ToolsNeverRaise ==
    (variant \in ToolFacing /\ pc \in {"done", "failed"}) =>
        /\ outcome.kind \in {"result", "nodata", "cached", "error"}
        /\ pc = "failed" => outcome.kind = "error"

----------------------------------------------------------------------------
(* Claims about the analysis functions *)

\* The cell a record carries for a concept: the one under the first
\* candidate name that is a key of the record, NaN when none is.
RecordValue(r, col_names) ==
    LET present == {j \in 1..Len(col_names) : col_names[j] \in RecordKeys(r)}
    IN  IF present = {} THEN NaNCell
        ELSE r[col_names[CHOOSE j \in present : \A m \in present : j <= m]]

RecordNumber(fn, r, c) == to_number(RecordValue(r, AnalysisTable[fn][c]))

\* The record has a parseable price (deposit and monthly rent for a lease
\* function) and a parseable area greater than 0.
ValidRecord(fn, r) ==
    /\ \A c \in Required(fn) : RecordNumber(fn, r, c).ok
    /\ RecordNumber(fn, r, "area").val > 0

InSeq(i, s) == \E j \in 1..Len(s) : s[j] = i

Analysed == result.fn # "none"

\* C7: every record that reaches the aggregation (the cleaned rows, and the
\* jeonse and wolse frames drawn from them) has a parseable price (deposit
\* and rent for a lease function) and a parseable area > 0; a record failing
\* either condition is in none of them.
C7_ContributingRecordsAreValid ==
    Analysed =>
        /\ \A j \in 1..Len(result.cleaned) : ValidRecord(result.fn, df[result.cleaned[j]])
        /\ \A j \in 1..Len(result.jeonse) : InSeq(result.jeonse[j], result.cleaned)
        /\ \A j \in 1..Len(result.wolse) : InSeq(result.wolse[j], result.cleaned)
        /\ \A i \in 1..Len(df) :
              ~ValidRecord(result.fn, df[i]) =>
                  /\ ~InSeq(i, result.cleaned)
                  /\ ~InSeq(i, result.jeonse)
                  /\ ~InSeq(i, result.wolse)
        /\ result.statistics => result.cleaned # <<>>

\* C7 witness: statistics were emitted from a record set of which a record
\* with a parseable price and an area of 0 was dropped.
C7_Witness ==
    /\ Analysed
    /\ result.statistics
    /\ \E i \in 1..Len(df) :
          /\ \A c \in Required(result.fn) : RecordNumber(result.fn, df[i], c).ok
          /\ RecordNumber(result.fn, df[i], "area").val = 0
          /\ ~InSeq(i, result.cleaned)

\* C8 as stated: for a lease record set the jeonse and the wolse partition of
\* the cleaned set are disjoint and jeonse_count + wolse_count is the number
\* of cleaned records, whatever the parsed rent values are.
C8_LeaseSplitCoversCleaned ==
    (Analysed /\ AnalysisTable[result.fn].lease /\ result.statistics) =>
        /\ \A i \in 1..Len(result.jeonse) : ~InSeq(result.jeonse[i], result.wolse)
        /\ result.jeonse_count + result.wolse_count = Len(result.cleaned)

\* C9 as stated: a record set without records yields "No data to analyze.",
\* a record set with records of which none is valid yields "No valid
\* transaction data after cleaning."; neither emits statistics.
C9_EmptyAndInvalidMessages ==
    Analysed =>
        /\ Len(df) = 0 =>
              (result.error = "No data to analyze." /\ ~result.statistics)
        /\ (Len(df) > 0 /\ \A i \in 1..Len(df) : ~ValidRecord(result.fn, df[i])) =>
              /\ result.error = "No valid transaction data after cleaning."
              /\ ~result.statistics

\* C9 amended: a record set without records, or whose records carry no field
\* at all, yields "No data to analyze."; a record set carrying some field of
\* which no record is valid yields "No valid transaction data after
\* cleaning."; in neither case are statistics emitted.
C9_NoDataOrNoValidData ==
    Analysed =>
        LET fieldless == \A i \in 1..Len(df) : RecordKeys(df[i]) = {}
        IN  /\ fieldless =>
                  (result.error = "No data to analyze." /\ ~result.statistics)
            /\ (~fieldless /\ \A i \in 1..Len(df) : ~ValidRecord(result.fn, df[i])) =>
                  /\ result.error = "No valid transaction data after cleaning."
                  /\ ~result.statistics
            /\ result.error # "" =>
                  /\ ~result.statistics
                  /\ result.cleaned = <<>>
                  /\ result.jeonse_count = 0 /\ result.wolse_count = 0

\* C9 witness: the single record with price "500,000" and area "0" was
\* answered with the no-valid-data error.
C9_Witness ==
    /\ Analysed
    /\ df = <<Modern(T500000, T0, T0)>>
    /\ result.error = "No valid transaction data after cleaning."
    /\ ~result.statistics

\* The legacy (Korean) names among the candidate names.
LegacyKeys == {"georaegeumaek", "jeonyongmyeonjeok", "bojeunggeumaek", "bojeunggeum",
               "wolseaek", "wolse"}

\* C10 as stated: a record that contains an earlier-listed legacy name and a
\* later-listed modern name of one concept resolves to the value under the
\* earlier-listed name, whatever the other records of the set contain.
C10_EarlierListedKeyWins ==
    (Analysed /\ result.error # "No data to analyze.") =>
        \A c \in Required(result.fn) : \A i \in 1..Len(df) :
            LET col_names == AnalysisTable[result.fn][c]
                own == {j \in 1..Len(col_names) : col_names[j] \in RecordKeys(df[i])}
                first == CHOOSE j \in own : \A m \in own : j <= m
            IN  (/\ own # {}
                 /\ col_names[first] \in LegacyKeys
                 /\ \E m \in own : col_names[m] \notin LegacyKeys) =>
                    result.resolved[c][i] = df[i][col_names[first]]

\* C11 as stated: for every record and every concept the resolved value is
\* the value under the first candidate name that is a key of that record
\* (a missing value when none is), also for a record that lacks the earlier
\* candidates while other records of the set carry them.
C11_FirstPresentKeyOfRecord ==
    (Analysed /\ result.error # "No data to analyze.") =>
        \A c \in Required(result.fn) : \A i \in 1..Len(df) :
            LET col_names == AnalysisTable[result.fn][c]
                own == {j \in 1..Len(col_names) : col_names[j] \in RecordKeys(df[i])}
            IN  IF own = {}
                THEN result.resolved[c][i].kind \in {"none", "nan"}
                ELSE result.resolved[c][i] = RecordValue(df[i], col_names)

----------------------------------------------------------------------------
(* Claims about the resolvers and conversions *)

Resolved == resolution.impl # "none"

NonePresent == FirstPresent(df, Candidates(resolution.impl, resolution.concept)) = 0

\* C12 as stated: when no candidate name of the concept is a column of the
\* record set, every resolver followed by its numeric step yields a column
\* of the record set's length whose values are all missing, and nothing
\* raises.
C12_NoCandidateYieldsMissingColumn ==
    (Resolved /\ NonePresent) =>
        /\ ~resolution.raised
        /\ Len(resolution.column) = Len(df)
        /\ \A i \in 1..Len(df) : ~resolution.column[i].ok

\* The conversions of analysis_tools.py, nrg_trade.py and molit_api.py, named
\* by the resolver they follow.
CitedConversions == {"get_col_from_df", "nrg_trade.get_col", "molit_api.get_col"}

\* C13: the numeric conversion of analysis_tools.py (to_numeric), of
\* nrg_trade.py and of molit_api.py (to_num) never raises on a text, an empty
\* text, None or NaN; it yields the number a text of digits with thousands
\* separators denotes ("1,234" yields 1234) and MISSING for the empty text,
\* for None and for a text that is not a number.
C13_CoercionIsTotal ==
    conversion.impl \in CitedConversions =>
        /\ ~conversion.raised
        /\ conversion.input = T1234 => conversion.num = Number(1234)
        /\ conversion.input = T500000 => conversion.num = Number(500000)
        /\ conversion.input \in {TEmpty, NoneCell, NaNCell, TJunk, TBlank} =>
              conversion.num = Missing
        /\ conversion.input = T0 => conversion.num = Number(0)

\* C13 witness: nrg_trade.py's to_num has turned "1,234" into 1234.
C13_Witness ==
    /\ conversion.impl = "nrg_trade.get_col"
    /\ conversion.input = T1234
    /\ conversion.num = Number(1234)
    /\ ~conversion.raised

\* The rent cell of row i as the fetch layer of officetel_rent.py sees it.
ItemRent(i) ==
    LET names == Candidates("officetel_rent.get_col_name", "rent")
        first == FirstPresent(df, names)
    IN  IF first = 0 THEN NaNCell ELSE Cell(df, i, names[first])

\* C14 as stated: through the lease split a record is classified as jeonse
\* only if its monthly rent parses to exactly 0; a record whose rent is
\* missing, empty or unparseable is never jeonse, in the fetch layer's split
\* and in the analysis split.
C14_MissingRentIsNotJeonse ==
    /\ split.done =>
          \A j \in 1..Len(split.jeonse) : to_number(ItemRent(split.jeonse[j])) = Number(0)
    /\ (Analysed /\ AnalysisTable[result.fn].lease) =>
          \A j \in 1..Len(result.jeonse) :
              RecordNumber(result.fn, df[result.jeonse[j]], "rent") = Number(0)

----------------------------------------------------------------------------
(* Claims about the representative deals, the buckets and the groups *)

Prices == [i \in 1..Len(deals) |-> deals[i].price]

\* the earliest position of a set of positions
First(S) == CHOOSE i \in S : \A j \in S : i <= j

\* the rows whose price is nearest to m
Closest(m) ==
    {i \in 1..Len(deals) :
        \A j \in 1..Len(deals) :
            Abs(Prices[i] * m.den - m.num) <= Abs(Prices[j] * m.den - m.num)}

\* C15: each representative deal is the first row, in cleaned order, among
\* those attaining the extremum: dealClosestToAverage / dealClosestToMedian
\* the first minimiser of |price - mean| / |price - median|, highestPriceDeal
\* / lowestPriceDeal the first row with the maximum / minimum price; for the
\* prices 100, 200, 200 the deal closest to the average is the first 200.
C15_FirstOccurrenceWins ==
    stats.done =>
        /\ stats.dealClosestToAverage = First(Closest(mean(Prices)))
        /\ stats.dealClosestToMedian = First(Closest(median(Prices)))
        /\ stats.highestPriceDeal =
               First({i \in 1..Len(deals) : \A j \in 1..Len(deals) : Prices[i] >= Prices[j]})
        /\ stats.lowestPriceDeal =
               First({i \in 1..Len(deals) : \A j \in 1..Len(deals) : Prices[i] <= Prices[j]})
        /\ Prices = <<100, 200, 200>> => stats.dealClosestToAverage = 2

C15_Witness ==
    /\ stats.done
    /\ Prices = <<100, 200, 200>>
    /\ Cardinality(Closest(mean(Prices))) = 2
    /\ stats.dealClosestToAverage = 2
    /\ stats.highestPriceDeal = 2

----------------------------------------------------------------------------
(* Claims about the unit-tagged formatter *)

Formatted == formatted.by # "none"

PriceUnits == {"manwon", "manwon/pyeong"}

\* C16: a non-missing price in 10,000-won units is rescaled by exactly 10,000
\* and relabelled ('만원' to '원', '만원/평' to '원/평'), 50000 '만원' becoming
\* 500000000 '원'; under any other unit label the value is not rescaled (it
\* stays within a half of the input) and the label is kept.
C16_PricesRescaledByTenThousand ==
    (Formatted /\ value.kind # "nan") =>
        /\ unit_str \in PriceUnits =>
              /\ formatted.unit = (IF unit_str = "manwon" THEN "won" ELSE "won/pyeong")
              /\ formatted.value.num * value.den = value.num * 10000 * formatted.value.den
        /\ unit_str \notin PriceUnits =>
              /\ formatted.unit = unit_str
              /\ 2 * Abs(formatted.value.num * value.den - value.num * formatted.value.den)
                     <= value.den * formatted.value.den
        /\ (unit_str = "manwon" /\ value.num = 50000 * value.den) =>
              /\ formatted.value.num = 500000000 * formatted.value.den
              /\ formatted.unit = "won"

C16_Witness ==
    /\ formatted.by = "as_value_unit"
    /\ value = IntValue(50000)
    /\ unit_str = "manwon"
    /\ ~formatted.null
    /\ formatted.value.num = 500000000
    /\ formatted.value.den = 1
    /\ formatted.unit = "won"

\* the integer part of n / d, towards zero
trunc(n, d) == IF n >= 0 THEN n \div d ELSE 0 - ((0 - n) \div d)

\* the factor the formatter applies under a unit label
Scale(u) == IF u \in PriceUnits THEN 10000 ELSE 1

\* C17: every value the formatter produces, for every unit kind and every
\* non-missing input (non-integral means and medians included), is a whole
\* number, the truncation of the (rescaled) input.
C17_ValuesAreTruncatedIntegers ==
    (Formatted /\ value.kind # "nan") =>
        /\ formatted.value.num % formatted.value.den = 0
        /\ formatted.value.num \div formatted.value.den =
               trunc(value.num * Scale(unit_str), value.den)

\* C18: a missing value formats to null under every unit label, and every
\* non-missing value, 0 included, to a {value, unit} pair (0 to the value 0):
\* a missing value is never rendered as 0, nor 0 as null.
C18_MissingIsNullZeroIsNot ==
    Formatted =>
        /\ unit_str \in Units
        /\ value.kind = "nan" => formatted.null
        /\ value.kind # "nan" =>
              /\ ~formatted.null
              /\ formatted.value.kind # "nan"
              /\ value.num = 0 => formatted.value.num = 0

C18_Witness ==
    /\ Formatted
    /\ value.kind # "nan"
    /\ value.num = 0
    /\ ~formatted.null
    /\ formatted.value.num = 0
    /\ formatted.unit # "none"

\* the age bucket whose half-open interval holds the age a, if any
AgeBucketOf(a) ==
    IF a < 0 THEN NoBucket
    ELSE IF a < 6 THEN "5 years or newer"
    ELSE IF a < 11 THEN "6-10 years"
    ELSE IF a < 21 THEN "11-20 years"
    ELSE "over 20 years"

\* the scale bucket whose half-open interval holds the area s, if any
ScaleBucketOf(s) ==
    IF s < 0 THEN NoBucket
    ELSE IF s < 100 THEN "small (<100m2)"
    ELSE IF s < 300 THEN "medium (100-300m2)"
    ELSE IF s < 1000 THEN "large (300-1000m2)"
    ELSE "extra_large (>1000m2)"

AgeOf(i) == IF deals[i].age.ok THEN AgeBucketOf(deals[i].age.val) ELSE NoBucket

\* C19: a cleaned row is counted in exactly the age bucket among [0,6),
\* [6,11), [11,21), [21,inf) and the scale bucket among [0,100), [100,300),
\* [300,1000), [1000,inf) that holds its age / area, a boundary value falling
\* in the upper bucket; a row with a missing or negative age is in no age
\* bucket; a bucket without rows is not in the output.
C19_HalfOpenBuckets ==
    stats.done =>
        /\ DOMAIN stats.age_stats = {AgeOf(i) : i \in 1..Len(deals)} \ {NoBucket}
        /\ \A l \in DOMAIN stats.age_stats :
              /\ stats.age_stats[l] = Cardinality({i \in 1..Len(deals) : AgeOf(i) = l})
              /\ stats.age_stats[l] >= 1
        /\ DOMAIN stats.scale_stats = {ScaleBucketOf(deals[i].area) : i \in 1..Len(deals)}
        /\ \A l \in DOMAIN stats.scale_stats :
              /\ stats.scale_stats[l] =
                     Cardinality({i \in 1..Len(deals) : ScaleBucketOf(deals[i].area) = l})
              /\ stats.scale_stats[l] >= 1

C19_Witness ==
    /\ stats.done
    /\ \E i \in 1..Len(deals) : deals[i].age = Number(6) /\ deals[i].area = 100
    /\ \E i \in 1..Len(deals) : deals[i].age.ok /\ deals[i].age.val < 0
    /\ \E i \in 1..Len(deals) : ~deals[i].age.ok
    /\ DOMAIN stats.age_stats = {"6-10 years"}
    /\ stats.age_stats["6-10 years"] = 1
    /\ "medium (100-300m2)" \in DOMAIN stats.scale_stats
    /\ "extra_large (>1000m2)" \notin DOMAIN stats.scale_stats

\* the rows whose group key is present
Keyed == {i \in 1..Len(deals) : deals[i].dong.ok}

RECURSIVE SumCounts(_, _)
\* the sum of the counts f[g] over the groups g of S
SumCounts(f, S) ==
    IF S = {} THEN 0
    ELSE LET g == CHOOSE x \in S : TRUE
         IN  f[g] + SumCounts(f, S \ {g})

\* C20: in a grouped section a group is emitted only if some cleaned row has
\* that key, every cleaned row with a key is counted in exactly one group
\* (its own), and the transactionCount values are each >= 1 and sum to the
\* number of cleaned rows that have a key.
C20_GroupsPartitionKeyedRows ==
    stats.done =>
        /\ DOMAIN stats.location_stats = {deals[i].dong.name : i \in Keyed}
        /\ \A g \in DOMAIN stats.location_stats :
              /\ stats.location_stats[g] =
                     Cardinality({i \in Keyed : deals[i].dong.name = g})
              /\ stats.location_stats[g] >= 1
        /\ SumCounts(stats.location_stats, DOMAIN stats.location_stats) = Cardinality(Keyed)

C20_Witness ==
    /\ stats.done
    /\ Len(deals) = 3
    /\ Cardinality(Keyed) = 2
    /\ DOMAIN stats.location_stats = {"A"}
    /\ stats.location_stats["A"] = 2

----------------------------------------------------------------------------
(* Claims about the artifact path, concurrent calls and failed calls *)

SingleArtifact == {"commercial", "land", "industrial"}

\* the path the claim gives for a tool's artifact
ExpectedPath(t) ==
    IF ToolTable[t].property_type \in SingleArtifact
    THEN "stem_summary.json"
    ELSE "stem_" \o ToolTable[t].trade_type \o "_summary.json"

\* C21: the artifact path is a function of the stem, the category and the
\* trade type: <stem>_summary.json for commercial, land and industrial,
\* <stem>_<tradeType>_summary.json otherwise, so that the trade and the rent
\* artifact of one source are two different paths; a computing call writes
\* and reports exactly that path.
C21_PathByCategoryAndTradeType ==
    /\ \A t \in Tools : cache_path(t) = ExpectedPath(t)
    /\ \A t1, t2 \in Tools :
          (/\ ToolTable[t1].property_type = ToolTable[t2].property_type
           /\ ToolTable[t1].trade_type # ToolTable[t2].trade_type)
          => cache_path(t1) # cache_path(t2)
    /\ ret.kind = "computed" =>
          /\ ret.summary_cached_path = ExpectedPath(ret.tool)
          /\ artifact[ExpectedPath(ret.tool)].exists

C21_Witness ==
    /\ ret.kind = "computed"
    /\ ret.tool = "analyze_apartment_rent"
    /\ ret.summary_cached_path = "stem_rent_summary.json"
    /\ artifact["stem_rent_summary.json"].exists
    /\ artifact["stem_trade_summary.json"].exists
    /\ ~artifact["stem_summary.json"].exists

\* the callers that have returned
Done == {i \in Callers : calls[i].pc = "done"}

\* C22: while the source is never rewritten (it keeps its first modification
\* time), every concurrent analyze call returns the complete analysis of the
\* source, none returns a partially written or empty artifact, and once all
\* calls have returned the artifact on disk is the complete analysis.
C22_LastWriterWinsIsSafe ==
    source.mtime = 0 =>
        /\ \A i \in Done : calls[i].body = Summary(RaceTool, source.content)
        /\ Done = Callers =>
              artifact[cache_path(RaceTool)] # NoFile
              /\ artifact[cache_path(RaceTool)].content = Summary(RaceTool, source.content)

\* C23: whenever a call serves the stored artifact as valid, what it serves
\* is the analysis of the content the source has at that moment, whatever
\* the interleaving of calls and rewrites of the source.
C23_HitServesCurrentAnalysis ==
    \A i \in Done :
        calls[i].kind = "cached" => calls[i].body = Summary(RaceTool, calls[i].source_then)

----------------------------------------------------------------------------
(* Claims about the collection loops and the fetch cache *)

\* ceil(t / p)
CeilDiv(t, p) == (t + p - 1) \div p

EarlierPagesFull == \A k \in 1..(Len(requested) - 1) : served[k] = MaxPageItems

C25_MissingCredentialIsDescriptive ==
    (~credential /\ pc \in {"done", "failed"}) =>
        /\ pc = "failed"
        /\ outcome.cause = "missing_credential"
        /\ requested = <<>>
        /\ file_writes = 0

----------------------------------------------------------------------------
(* Claims about the lease analyses *)

\* C26: for a non-empty rent partition in which a complex or building name
\* is present, analyze_rent_type completes without error and emits for each
\* complex with at least one record its transaction count; the wolse
\* statistics carry the monthly rent, the jeonse statistics do not.
C26_PerComplexStatisticsOfRentPartition ==
    (stats.rent_type # "none" /\ Keyed # {}) =>
        /\ ~stats.raised
        /\ DOMAIN stats.location_stats = {deals[i].dong.name : i \in Keyed}
        /\ \A g \in DOMAIN stats.location_stats :
              stats.location_stats[g] = Cardinality({i \in Keyed : deals[i].dong.name = g})
        /\ stats.monthly <=> stats.rent_type = "wolse"

----------------------------------------------------------------------------
(* Claims about failed calls and about what a hit returns *)

\* C27: a call that ends with the generic analysis error leaves the summary
\* artifact exactly as the call found it, and no call serves a truncated
\* artifact as a cache hit.
C27_FailedCallLeavesArtifact ==
    Called =>
        /\ ret.kind = "error" => artifact[cache_path(ret.tool)] = ret.preArt
        /\ ret.kind = "cached" => ret.body # <<Partial>>

\* C28: when a call that computed and wrote the artifact is followed, on the
\* unchanged source, by a call that is a cache hit, the hit returns what the
\* computing call returned: the same analysis and the same summary_cached_path
\* field, and the analysis is the content of the artifact on disk.
C28_HitEqualsMissEqualsArtifact ==
    (SecondCall /\ ret.prevKind = "computed" /\ ret.kind = "cached") =>
        /\ ret.body = Summary(ret.tool, ret.preSrc.content)
        /\ ret.body = artifact[cache_path(ret.tool)].content
        /\ ret.summary_cached_path = cache_path(ret.tool)

Officetel == variant = "mcp_get_officetel_rent_data"

\* C29: a get_officetel_rent_data call that finds the data file makes no
\* upstream request, returns the stored records and leaves the file as it
\* is, whatever the file's age; a call that finds none requests at least one
\* page before it ends, writes the file when it collected at least one item
\* and writes nothing when it collected none, so that the next call fetches
\* again.
C29_StoredDocumentIsServedForever ==
    (Officetel /\ pc \in {"done", "failed"}) =>
        /\ pre_file.exists =>
              /\ pc = "done"
              /\ requested = <<>>
              /\ outcome.kind = "cached"
              /\ outcome.records = pre_file.content.items
              /\ datafile = pre_file
        /\ ~pre_file.exists =>
              /\ Len(requested) >= 1
              /\ outcome.kind # "cached"
              /\ (pc = "done" /\ all_items # <<>>) => datafile = DataFile("collected", all_items)
              /\ (pc = "done" /\ all_items = <<>>) => ~datafile.exists

\* C29 witness: a call served, without a request, the records an earlier
\* collection of two items had written.
C29_Witness ==
    /\ Officetel
    /\ pc = "done"
    /\ outcome.kind = "cached"
    /\ requested = <<>>
    /\ pre_file = DataFile("collected", outcome.records)
    /\ Len(outcome.records) = 2

\* The two loops the claim compares, the second both as the api method and
\* as the copy inside the tool.
ComparedLoops == {"mcp_get_officetel_rent_data", "NRGTradeAPI.get_trade_data",
                  "get_nrg_trade_data"}

RECURSIVE Run(_, _, _, _, _, _)
\* The loop of w replayed from page p on the responses (total text tc, ns[p]
\* items on page p): the pages it requests, the items it accumulates and
\* whether it would request a further page after the last response.
Run(w, tc, ns, p, total, acc) ==
    IF p > Len(ns)
    THEN [requested |-> [i \in 1..Len(ns) |-> i], items |-> acc, more |-> TRUE]
    ELSE LET t == parse_total(w, tc, total, p)
             a == acc \o PageItems(p, ns[p])
         IN  IF loop_breaks(w, ns[p], Len(a), t.val, p)
             THEN [requested |-> [i \in 1..p |-> i], items |-> a, more |-> FALSE]
             ELSE Run(w, tc, ns, p + 1, t, a)

Replay(w) ==
    Run(w, reported, served, 1, IF w \in IntLoops THEN NoneTotal ELSE Known(0), <<>>)

\* C30: whenever one of the two loops has been answered with a first-page
\* total that is absent or plain decimal digits, the other loop, replayed on
\* the same responses, requests the same pages, accumulates the same items
\* and stops or goes on at the same point.
C30_LoopsAreEquivalent ==
    (/\ variant \in ComparedLoops
     /\ pc \in {"loop", "done"}
     /\ outcome.kind # "cached"
     /\ reported.kind \in {"absent", "digits"}) =>
        \A w \in ComparedLoops :
            /\ Replay(w).requested = requested
            /\ Replay(w).items = all_items
            /\ Replay(w).more <=> pc = "loop"

\* C30 witness: the NRG loop ended on the second page of a total of three,
\* and the officetel loop replayed on the same two responses collected the
\* same three items.
C30_Witness ==
    /\ variant = "NRGTradeAPI.get_trade_data"
    /\ pc = "done"
    /\ reported = [kind |-> "digits", n |-> 3]
    /\ served = <<2, 1>>
    /\ requested = <<1, 2>>
    /\ Replay("mcp_get_officetel_rent_data").items = all_items
    /\ Len(all_items) = 3

====
